---- MODULE Spec2Model ----
(***************************************************************************)
(* A model of json.h (kext/json.h): tagged JsonValue words, the arena      *)
(* allocator, the builder API, the recursive-descent parser and the        *)
(* stringifier.                                                            *)
(*                                                                         *)
(* Memory is one flat partial map  address -> cell.  A cell is one struct  *)
(* field (a pointer word, a JsonValue word, a JsonNumber) stored at the    *)
(* field's byte offset for a 64-bit build, or one char of a string or of a *)
(* text buffer.  Pointers are addresses, 0 is the null pointer.            *)
(***************************************************************************)
EXTENDS Integers, Sequences, FiniteSets, TLC

\* pc     where the caller is: which call it makes next
\* arena  the JsonArena
\* mem    the memory: the arena's buffer, the caller's texts and buffers
\* input  the arguments the caller chose for this run
\* op     the last call made and what it returned
VARIABLES pc, arena, mem, input, op

vars == <<pc, arena, mem, input, op>>

----------------------------------------------------------------------------
(* Bounds of the model.                                                    *)

\* Length in bytes of the caller's buffer in the arena specification: from
\* its unaligned start, room for an object and one entry.
TightArenaLen == 43
\* The most calls the caller makes on one arena in the arena specification.
MaxOps == 7

\* Length in bytes of the caller's buffer handed to json_arena_init in the
\* parser specifications.
ArenaLen == 128
\* Length in bytes of the caller's buffer in the builder specification.
BuildArenaLen == 88
\* Length in bytes of the caller's buffer in the stringifier specification.
StrArenaLen == 256
\* Largest length of the caller's text buffer passed to json_stringify.
MaxBufLen == 20
\* Largest address tried by the typed constructors.
MaxAddr == 70

----------------------------------------------------------------------------
(* Characters.                                                             *)

\* The chars json.h names in its char and string literals.
CH_LBRACE == 123
CH_RBRACE == 125
CH_LBRACKET == 91
CH_RBRACKET == 93
CH_QUOTE == 34
CH_BACKSLASH == 92
CH_SLASH == 47
CH_COLON == 58
CH_COMMA == 44
CH_PLUS == 43
CH_MINUS == 45
CH_SPACE == 32
CH_TAB == 9
CH_CR == 13
CH_LF == 10
CH_BS == 8
CH_FF == 12
CH_0 == 48
CH_1 == 49
CH_9 == 57
CH_a == 97
CH_b == 98
CH_e == 101
CH_f == 102
CH_l == 108
CH_n == 110
CH_r == 114
CH_s == 115
CH_t == 116
CH_u == 117

\* The char codes of the chars the texts below are written with.
Ascii ==
  ("{" :> 123) @@ ("}" :> 125) @@ ("[" :> 91) @@ ("]" :> 93) @@ ("\"" :> 34)
  @@ ("\\" :> 92) @@ ("/" :> 47) @@ (":" :> 58) @@ ("," :> 44) @@ ("+" :> 43)
  @@ ("-" :> 45) @@ (" " :> 32) @@ ("\t" :> 9) @@ ("\r" :> 13) @@ ("\n" :> 10)
  @@ ("BS" :> 8) @@ ("\f" :> 12) @@ ("NUL" :> 0) @@ ("x80" :> 128) @@ ("0" :> 48)
  @@ ("1" :> 49) @@ ("2" :> 50) @@ ("3" :> 51) @@ ("4" :> 52) @@ ("5" :> 53)
  @@ ("6" :> 54) @@ ("7" :> 55) @@ ("8" :> 56) @@ ("9" :> 57) @@ ("a" :> 97)
  @@ ("b" :> 98) @@ ("c" :> 99) @@ ("d" :> 100) @@ ("e" :> 101) @@ ("f" :> 102)
  @@ ("l" :> 108) @@ ("n" :> 110) @@ ("r" :> 114) @@ ("s" :> 115) @@ ("t" :> 116)
  @@ ("u" :> 117) @@ ("x" :> 120) @@ ("k" :> 107) @@ ("." :> 46)

Ord(c) == Ascii[c]

\* A text written as a tuple of one-character strings, as a tuple of chars.
T(s) == [i \in 1..Len(s) |-> Ord(s[i])]

----------------------------------------------------------------------------
(* Value model.                                                            *)

INT32_MAX == 2147483647
INT32_MIN == -2147483647 - 1

JSON_UNDEFINED == 0
JSON_TRUE == 1
JSON_FALSE == 2
JSON_NULL == 3

\* sizeof(void *) of the build.
SIZEOF_PTR == 8
\* sizeof(JsonNumber).
SIZEOF_NUMBER == 4

JSON__ALIGNMENT == IF SIZEOF_PTR < 4 THEN 4 ELSE SIZEOF_PTR

\* v & 3
Tag(v) == v % 4

json_is_null(v) == v = JSON_NULL
json_is_true(v) == v = JSON_TRUE
json_is_false(v) == v = JSON_FALSE
json_is_boolean(v) == v = JSON_TRUE \/ v = JSON_FALSE
json_is_number(v) == Tag(v) = JSON_TRUE /\ v > 3
json_is_string(v) == Tag(v) = JSON_UNDEFINED /\ v > 3
json_is_object(v) == Tag(v) = JSON_FALSE /\ v > 3
json_is_array(v) == Tag(v) = JSON_NULL /\ v > 3

\* v & ~3
json__pointer(v) == v - Tag(v)

\* The classification of a word by the predicates above.
Classify(v) ==
  CASE v = JSON_UNDEFINED -> "Undefined"
    [] json_is_true(v) -> "True"
    [] json_is_false(v) -> "False"
    [] json_is_null(v) -> "Null"
    [] json_is_number(v) -> "Number"
    [] json_is_string(v) -> "String"
    [] json_is_object(v) -> "Object"
    [] json_is_array(v) -> "Array"

\* A read of memory.  A cell the model never stored reads as 0.
Rd(m, a) == IF a \in DOMAIN m THEN m[a] ELSE 0

\* A store to memory.
St(m, a, x) == (a :> x) @@ m

json_number_get(m, v) ==
  IF json_is_number(v) THEN Rd(m, json__pointer(v)) ELSE 0

json_string_get(v) ==
  IF json_is_string(v) THEN json__pointer(v) ELSE 0

json_string(s) ==
  IF s = 0 \/ s % 4 # 0 THEN JSON_UNDEFINED ELSE s

\* (JsonValue) number | JSON_TRUE
json_number_extern(number) ==
  IF number = 0 THEN JSON_UNDEFINED
  ELSE IF number % 2 = 1 THEN number ELSE number + 1

\* The chars of the NUL-terminated string at address s.
RECURSIVE CStr(_, _)
CStr(m, s) == IF Rd(m, s) = 0 THEN <<>> ELSE <<Rd(m, s)>> \o CStr(m, s + 1)

\* strcmp(a, b) == 0
StrEq(m, a, b) == CStr(m, a) = CStr(m, b)

----------------------------------------------------------------------------
(* Arena allocator.                                                        *)

\* Field offsets of struct JsonObject, JsonObjectEntry, JsonArray and
\* JsonArrayElement.
OFF_FIRST == 0
OFF_LAST == SIZEOF_PTR
OFF_NEXT == 0
OFF_KEY == SIZEOF_PTR
OFF_ENTRY_VALUE == 2 * SIZEOF_PTR
OFF_ELEMENT_VALUE == SIZEOF_PTR
SIZEOF_OBJECT == 2 * SIZEOF_PTR
SIZEOF_ENTRY == 3 * SIZEOF_PTR
SIZEOF_ARRAY == 2 * SIZEOF_PTR
SIZEOF_ELEMENT == 2 * SIZEOF_PTR

\* The first loop of json_arena_init: buffer and length after the buffer is
\* advanced to an aligned address.
RECURSIVE AlignBuffer(_, _)
AlignBuffer(buffer, length) ==
  IF buffer % JSON__ALIGNMENT # 0 /\ length > 0
  THEN AlignBuffer(buffer + 1, length - 1)
  ELSE [buffer |-> buffer, length |-> length]

\* The second loop of json_arena_init: length cut to a multiple of the
\* alignment.
RECURSIVE TruncLength(_)
TruncLength(length) ==
  IF length % JSON__ALIGNMENT # 0 THEN TruncLength(length - 1) ELSE length

\* json_arena_init: the arena and the return value.
json_arena_init(buffer, length) ==
  LET al == AlignBuffer(buffer, length) IN
  IF al.length < JSON__ALIGNMENT
  THEN [ret |-> -1, arena |-> [buffer |-> 0, size |-> 0, heap |-> 0, stack |-> 0]]
  ELSE [ret |-> 0,
        arena |-> [buffer |-> al.buffer, size |-> TruncLength(al.length),
                   heap |-> 0, stack |-> TruncLength(al.length)]]

\* The rounding loop of json_arena_alloc (sizes here are far from SIZE_MAX,
\* the add never overflows).
RECURSIVE RoundUp(_)
RoundUp(size) ==
  IF size % JSON__ALIGNMENT # 0 THEN RoundUp(size + 1) ELSE size

\* json_arena_alloc without its capacity check.
AllocUnchecked(a, size) ==
  [r |-> a.buffer + a.heap, arena |-> [a EXCEPT !.heap = a.heap + RoundUp(size)]]

\* json_arena_alloc: the returned pointer (0 on failure) and the arena.
json_arena_alloc(a, size) ==
  IF RoundUp(size) > a.stack - a.heap
  THEN [r |-> 0, arena |-> a]
  ELSE [r |-> a.buffer + a.heap,
        arena |-> [a EXCEPT !.heap = a.heap + RoundUp(size)]]

json_arena_save(a) == a.heap

\* json_arena_restore without its assignment.
RestoreKeepsHeap(a, position) == a

json_arena_restore(a, position) == [a EXCEPT !.heap = position]

----------------------------------------------------------------------------
(* Iterators and the builder API.  A builder returns its return value with *)
(* the arena and the memory it leaves.                                     *)

json_object_iterator(m, object) ==
  IF ~json_is_object(object) THEN 0
  ELSE Rd(m, json__pointer(object) + OFF_FIRST)

json_array_iterator(m, array) ==
  IF ~json_is_array(array) THEN 0
  ELSE Rd(m, json__pointer(array) + OFF_FIRST)

\* The entries json_object_next produces from iterator i on: the address,
\* the key and the value of each.
RECURSIVE ObjectEntries(_, _)
ObjectEntries(m, i) ==
  IF i = 0 THEN <<>>
  ELSE <<[e |-> i, key |-> Rd(m, i + OFF_KEY), value |-> Rd(m, i + OFF_ENTRY_VALUE)]>>
       \o ObjectEntries(m, Rd(m, i + OFF_NEXT))

\* The values json_array_next produces from iterator i on.
RECURSIVE ArrayElements(_, _)
ArrayElements(m, i) ==
  IF i = 0 THEN <<>>
  ELSE <<Rd(m, i + OFF_ELEMENT_VALUE)>> \o ArrayElements(m, Rd(m, i + OFF_NEXT))

json_number_new(a, m, number) ==
  LET al == json_arena_alloc(a, SIZEOF_NUMBER) IN
  IF al.r = 0 THEN [v |-> JSON_UNDEFINED, arena |-> al.arena, mem |-> m]
  ELSE [v |-> al.r + JSON_TRUE, arena |-> al.arena, mem |-> St(m, al.r, number)]

json_object_new(a, m) ==
  LET al == json_arena_alloc(a, SIZEOF_OBJECT) IN
  IF al.r = 0 THEN [v |-> JSON_UNDEFINED, arena |-> al.arena, mem |-> m]
  ELSE [v |-> al.r + JSON_FALSE, arena |-> al.arena,
        mem |-> St(St(m, al.r + OFF_FIRST, 0), al.r + OFF_LAST, 0)]

json_array_new(a, m) ==
  LET al == json_arena_alloc(a, SIZEOF_ARRAY) IN
  IF al.r = 0 THEN [v |-> JSON_UNDEFINED, arena |-> al.arena, mem |-> m]
  ELSE [v |-> al.r + JSON_NULL, arena |-> al.arena,
        mem |-> St(St(m, al.r + OFF_FIRST, 0), al.r + OFF_LAST, 0)]

json_object_append(a, m, object, key, value) ==
  IF ~json_is_object(object) \/ key = 0 THEN [ret |-> -1, arena |-> a, mem |-> m]
  ELSE
    LET al == json_arena_alloc(a, SIZEOF_ENTRY)
        e == al.r
        o == json__pointer(object)
        m1 == St(St(St(m, e + OFF_KEY, key), e + OFF_ENTRY_VALUE, value), e + OFF_NEXT, 0)
        last == Rd(m1, o + OFF_LAST)
        m2 == IF last # 0 THEN St(m1, last + OFF_NEXT, e) ELSE St(m1, o + OFF_FIRST, e)
    IN IF e = 0 THEN [ret |-> -1, arena |-> al.arena, mem |-> m]
       ELSE [ret |-> 0, arena |-> al.arena, mem |-> St(m2, o + OFF_LAST, e)]

\* The loop of json_object_set from iterator i on: the entry whose key
\* compares equal first, 0 if there is none.
RECURSIVE SetFind(_, _, _)
SetFind(m, i, key) ==
  IF i = 0 THEN 0
  ELSE IF StrEq(m, Rd(m, i + OFF_KEY), key) THEN i
  ELSE SetFind(m, Rd(m, i + OFF_NEXT), key)

\* json_object_set without its scan for an existing entry.
SetAlwaysAppends(a, m, object, key, value) ==
  json_object_append(a, m, object, key, value)

json_object_set(a, m, object, key, value) ==
  IF ~json_is_object(object) \/ key = 0 THEN [ret |-> -1, arena |-> a, mem |-> m]
  ELSE
    LET j == SetFind(m, json_object_iterator(m, object), key) IN
    IF j # 0 THEN [ret |-> 0, arena |-> a, mem |-> St(m, j + OFF_ENTRY_VALUE, value)]
    ELSE json_object_append(a, m, object, key, value)

\* The loop of json_object_get from iterator i on.
RECURSIVE GetFind(_, _, _)
GetFind(m, i, key) ==
  IF i = 0 THEN JSON_UNDEFINED
  ELSE IF StrEq(m, Rd(m, i + OFF_KEY), key) THEN Rd(m, i + OFF_ENTRY_VALUE)
  ELSE GetFind(m, Rd(m, i + OFF_NEXT), key)

json_object_get(m, object, key) ==
  IF ~json_is_object(object) \/ key = 0 THEN JSON_UNDEFINED
  ELSE GetFind(m, json_object_iterator(m, object), key)

json_array_push(a, m, array, value) ==
  IF ~json_is_array(array) THEN [ret |-> -1, arena |-> a, mem |-> m]
  ELSE
    LET al == json_arena_alloc(a, SIZEOF_ELEMENT)
        e == al.r
        ar == json__pointer(array)
        m1 == St(St(m, e + OFF_ELEMENT_VALUE, value), e + OFF_NEXT, 0)
        last == Rd(m1, ar + OFF_LAST)
        m2 == IF last # 0 THEN St(m1, last + OFF_NEXT, e) ELSE St(m1, ar + OFF_FIRST, e)
    IN IF e = 0 THEN [ret |-> -1, arena |-> al.arena, mem |-> m]
       ELSE [ret |-> 0, arena |-> al.arena, mem |-> St(m2, ar + OFF_LAST, e)]

\* The loop of json_array_get: the element at index from iterator i on,
\* n elements in.
RECURSIVE ArrayWalk(_, _, _, _)
ArrayWalk(m, i, n, index) ==
  IF i = 0 THEN JSON_UNDEFINED
  ELSE IF n = index THEN Rd(m, i + OFF_ELEMENT_VALUE)
  ELSE ArrayWalk(m, Rd(m, i + OFF_NEXT), n + 1, index)

json_array_get(m, array, index) ==
  IF ~json_is_array(array) \/ index < 0 THEN JSON_UNDEFINED
  ELSE ArrayWalk(m, json_array_iterator(m, array), 0, index)

----------------------------------------------------------------------------
(* Parser.  A parse function takes the position json (an address of the   *)
(* text in memory), the arena, the memory and the word *result holds       *)
(* before the call; it returns the position after the value (0 on          *)
(* failure), the arena, the memory and the word *result holds after.       *)

\* The whitespace test without the tab.
IsSpaceNoTab(c) == c = CH_SPACE \/ c = CH_CR \/ c = CH_LF

IsSpace(c) == c = CH_SPACE \/ c = CH_TAB \/ c = CH_CR \/ c = CH_LF

RECURSIVE json__skip_whitespace(_, _)
json__skip_whitespace(m, json) ==
  IF json = 0 THEN 0
  ELSE IF IsSpace(Rd(m, json)) THEN json__skip_whitespace(m, json + 1)
  ELSE json

\* Whether the chars at json begin with the keyword word (the && chains of
\* json__parse_simple).
Matches(m, json, word) ==
  \A i \in 1..Len(word) : Rd(m, json + i - 1) = word[i]

json__parse_simple(json, a, m, res) ==
  IF Matches(m, json, <<CH_t, CH_r, CH_u, CH_e>>)
  THEN [p |-> json + 4, arena |-> a, mem |-> m, result |-> JSON_TRUE]
  ELSE IF Matches(m, json, <<CH_f, CH_a, CH_l, CH_s, CH_e>>)
  THEN [p |-> json + 5, arena |-> a, mem |-> m, result |-> JSON_FALSE]
  ELSE IF Matches(m, json, <<CH_n, CH_u, CH_l, CH_l>>)
  THEN [p |-> json + 4, arena |-> a, mem |-> m, result |-> JSON_NULL]
  ELSE [p |-> 0, arena |-> a, mem |-> m, result |-> res]

\* The switch of json__parse_string: the char an escape letter stands for,
\* -1 for the default case.
Unescape(c) ==
  CASE c = CH_QUOTE -> CH_QUOTE
    [] c = CH_BACKSLASH -> CH_BACKSLASH
    [] c = CH_SLASH -> CH_SLASH
    [] c = CH_t -> CH_TAB
    [] c = CH_r -> CH_CR
    [] c = CH_n -> CH_LF
    [] c = CH_b -> CH_BS
    [] c = CH_f -> CH_FF
    [] OTHER -> -1

\* The while loop of json__parse_string, l chars decoded so far, and the
\* code after it.
RECURSIVE ParseStringLoop(_, _, _, _, _)
ParseStringLoop(json, a, m, l, res) ==
  LET c == Rd(m, json)
      fail == [p |-> 0, arena |-> a, mem |-> m, result |-> res]
  IN
  IF c # CH_QUOTE THEN
    IF c < 32 THEN fail
    ELSE IF a.heap + l + 2 > a.stack THEN fail
    ELSE IF c = CH_BACKSLASH THEN
      IF Unescape(Rd(m, json + 1)) = -1 THEN fail
      ELSE ParseStringLoop(json + 2, a,
             St(m, a.buffer + a.heap + l, Unescape(Rd(m, json + 1))), l + 1, res)
    ELSE ParseStringLoop(json + 1, a, St(m, a.buffer + a.heap + l, c), l + 1, res)
  ELSE
    LET m1 == St(m, a.buffer + a.heap + l, 0)
        l1 == RoundUp(l + 1)
    IN IF a.heap + l1 > a.stack
       THEN [p |-> 0, arena |-> a, mem |-> m1, result |-> res]
       ELSE [p |-> json + 1, arena |-> [a EXCEPT !.heap = a.heap + l1],
             mem |-> m1, result |-> a.buffer + a.heap]

\* json__parse_string: result is the address of the decoded string.  The
\* char at json is skipped as the opening quote without being looked at.
json__parse_string(json, a, m, res) ==
  IF a.heap + 1 > a.stack THEN [p |-> 0, arena |-> a, mem |-> m, result |-> res]
  ELSE ParseStringLoop(json + 1, a, m, 0, res)

json__is_digit(c) == CH_0 <= c /\ c <= CH_9

\* json__builtin_mul_overflow(n, 10, &n), json__builtin_add_overflow(n, d, &n)
\* and json__builtin_sub_overflow(n, d, &n) for JsonNumber = int32_t: whether
\* the exact result is outside the type.
MulOverflow10(n) == n > INT32_MAX \div 10 \/ n < -(INT32_MAX \div 10)
\* The add check off by one: the largest sum is taken for an overflow.
AddOverflowEarly(n, d) == IF d >= 0 THEN n >= INT32_MAX - d ELSE n <= INT32_MIN - d

AddOverflow(n, d) == IF d >= 0 THEN n > INT32_MAX - d ELSE n < INT32_MIN - d
SubOverflow(n, d) == IF d >= 0 THEN n < INT32_MIN + d ELSE n > INT32_MAX + d

\* The digit loop of json__parse_number and the code after it.
RECURSIVE ParseNumberLoop(_, _, _, _, _, _)
ParseNumberLoop(json, a, m, n, negative, res) ==
  LET d == Rd(m, json) - CH_0
      fail == [p |-> 0, arena |-> a, mem |-> m, result |-> res]
  IN
  IF json__is_digit(Rd(m, json)) THEN
    IF MulOverflow10(n) THEN fail
    ELSE IF negative THEN
      IF SubOverflow(n * 10, d) THEN fail
      ELSE ParseNumberLoop(json + 1, a, m, n * 10 - d, negative, res)
    ELSE
      IF AddOverflow(n * 10, d) THEN fail
      ELSE ParseNumberLoop(json + 1, a, m, n * 10 + d, negative, res)
  ELSE
    LET nn == json_number_new(a, m, n) IN
    [p |-> IF nn.v = JSON_UNDEFINED THEN 0 ELSE json,
     arena |-> nn.arena, mem |-> nn.mem, result |-> nn.v]

json__parse_number(json, a, m, res) ==
  LET negative == Rd(m, json) = CH_MINUS
      j1 == IF Rd(m, json) = CH_PLUS \/ Rd(m, json) = CH_MINUS THEN json + 1 ELSE json
  IN IF ~json__is_digit(Rd(m, j1)) THEN [p |-> 0, arena |-> a, mem |-> m, result |-> res]
     ELSE ParseNumberLoop(j1, a, m, 0, negative, res)

json__parse_string_value(json, a, m, res) ==
  LET r == json__parse_string(json, a, m, 0) IN
  IF r.p = 0 THEN [p |-> 0, arena |-> r.arena, mem |-> r.mem, result |-> res]
  ELSE [p |-> r.p, arena |-> r.arena, mem |-> r.mem, result |-> json_string(r.result)]

RECURSIVE json_parse(_, _, _, _)

\* The while (1) loop of json__parse_object and its fail label.
RECURSIVE ParseObjectLoop(_, _, _, _, _, _, _)
ParseObjectLoop(json, a, m, object, start, position, res) ==
  LET fail(a1, m1) == [p |-> 0, arena |-> json_arena_restore(a1, position),
                       mem |-> m1, result |-> res]
  IN
  IF Rd(m, json) = CH_RBRACE
  THEN [p |-> json + 1, arena |-> a, mem |-> m, result |-> object]
  ELSE IF ~start /\ Rd(m, json) # CH_COMMA THEN fail(a, m)
  ELSE
    LET j1 == IF start THEN json ELSE json__skip_whitespace(m, json + 1)
        k == json__parse_string(j1, a, m, 0)
        j2 == json__skip_whitespace(k.mem, k.p)
        j3 == json__skip_whitespace(k.mem, j2 + 1)
        v == json_parse(j3, k.arena, k.mem, 0)
        ap == json_object_append(v.arena, v.mem, object, k.result, v.result)
    IN IF k.p = 0 THEN fail(k.arena, k.mem)
       ELSE IF Rd(k.mem, j2) # CH_COLON THEN fail(k.arena, k.mem)
       ELSE IF v.p = 0 THEN fail(v.arena, v.mem)
       ELSE IF ap.ret # 0 THEN fail(ap.arena, ap.mem)
       ELSE ParseObjectLoop(json__skip_whitespace(ap.mem, v.p), ap.arena, ap.mem,
                            object, FALSE, position, res)

json__parse_object(json, a, m, res) ==
  LET position == json_arena_save(a)
      o == json_object_new(a, m)
  IN ParseObjectLoop(json__skip_whitespace(o.mem, json + 1), o.arena, o.mem,
                     o.v, TRUE, position, res)

\* The while (1) loop of json__parse_array and its fail label.
RECURSIVE ParseArrayLoop(_, _, _, _, _, _, _)
ParseArrayLoop(json, a, m, array, start, position, res) ==
  LET fail(a1, m1) == [p |-> 0, arena |-> json_arena_restore(a1, position),
                       mem |-> m1, result |-> res]
  IN
  IF Rd(m, json) = CH_RBRACKET
  THEN [p |-> json + 1, arena |-> a, mem |-> m, result |-> array]
  ELSE IF ~start /\ Rd(m, json) # CH_COMMA THEN fail(a, m)
  ELSE
    LET j1 == IF start THEN json ELSE json__skip_whitespace(m, json + 1)
        v == json_parse(j1, a, m, 0)
        pu == json_array_push(v.arena, v.mem, array, v.result)
    IN IF v.p = 0 THEN fail(v.arena, v.mem)
       ELSE IF pu.ret # 0 THEN fail(pu.arena, pu.mem)
       ELSE ParseArrayLoop(json__skip_whitespace(pu.mem, v.p), pu.arena, pu.mem,
                           array, FALSE, position, res)

json__parse_array(json, a, m, res) ==
  LET position == json_arena_save(a)
      ar == json_array_new(a, m)
  IN ParseArrayLoop(json__skip_whitespace(ar.mem, json + 1), ar.arena, ar.mem,
                    ar.v, TRUE, position, res)

json_parse(json, a, m, res) ==
  LET c == Rd(m, json) IN
  IF c = CH_LBRACE THEN json__parse_object(json, a, m, res)
  ELSE IF c = CH_LBRACKET THEN json__parse_array(json, a, m, res)
  ELSE IF c = CH_QUOTE THEN json__parse_string_value(json, a, m, res)
  ELSE IF c = CH_t \/ c = CH_f \/ c = CH_n THEN json__parse_simple(json, a, m, res)
  ELSE IF c = CH_PLUS \/ c = CH_MINUS \/ json__is_digit(c)
  THEN json__parse_number(json, a, m, res)
  ELSE [p |-> 0, arena |-> a, mem |-> m, result |-> res]

----------------------------------------------------------------------------
(* Stringifier.  A stringify function takes the memory, the address buffer *)
(* and the length; it returns the size_t it returns and the memory.  Each  *)
(* write buffer[i] = c is a store at address buffer + i, whatever i is.    *)

\* memcpy(buffer, text, text_len) from char i on.
RECURSIVE CopyText(_, _, _, _)
CopyText(m, text, buffer, i) ==
  IF i > Len(text) THEN m
  ELSE CopyText(St(m, buffer + i - 1, text[i]), text, buffer, i + 1)

\* json__write with > for >= in its capacity check.
WriteNoRoomForNul(text, m, buffer, length) ==
  IF Len(text) > length
  THEN [r |-> 0, mem |-> IF length > 0 THEN St(m, buffer, 0) ELSE m]
  ELSE [r |-> Len(text), mem |-> St(CopyText(m, text, buffer, 1), buffer + Len(text), 0)]

json__write(text, m, buffer, length) ==
  IF Len(text) >= length
  THEN [r |-> 0, mem |-> IF length > 0 THEN St(m, buffer, 0) ELSE m]
  ELSE [r |-> Len(text), mem |-> St(CopyText(m, text, buffer, 1), buffer + Len(text), 0)]

json__hex == <<48, 49, 50, 51, 52, 53, 54, 55, 56, 57, 97, 98, 99, 100, 101, 102>>

\* The two-char escape json__stringify_string writes for c, 0 if it has none.
EscapeLetter(c) ==
  CASE c = CH_QUOTE -> CH_QUOTE
    [] c = CH_BACKSLASH -> CH_BACKSLASH
    [] c = CH_CR -> CH_r
    [] c = CH_LF -> CH_n
    [] c = CH_TAB -> CH_t
    [] OTHER -> 0

\* The while loop of json__stringify_string, n chars written, and the code
\* after it.
RECURSIVE StringifyStringLoop(_, _, _, _, _)
StringifyStringLoop(m, string, buffer, length, n) ==
  LET c == Rd(m, string) IN
  IF c # 0 THEN
    IF EscapeLetter(c) # 0 THEN
      IF length < n + 4 THEN [r |-> 0, mem |-> m]
      ELSE StringifyStringLoop(
             St(St(m, buffer + n, CH_BACKSLASH), buffer + n + 1, EscapeLetter(c)),
             string + 1, buffer, length, n + 2)
    ELSE IF c < 32 THEN
      IF length < n + 8 THEN [r |-> 0, mem |-> m]
      ELSE StringifyStringLoop(
             St(St(St(St(St(St(m, buffer + n, CH_BACKSLASH), buffer + n + 1, CH_u),
                           buffer + n + 2, CH_0), buffer + n + 3, CH_0),
                   buffer + n + 4, json__hex[((c \div 16) % 16) + 1]),
                buffer + n + 5, json__hex[(c % 16) + 1]),
             string + 1, buffer, length, n + 6)
    ELSE
      IF length < n + 4 THEN [r |-> 0, mem |-> m]
      ELSE StringifyStringLoop(St(m, buffer + n, c), string + 1, buffer, length, n + 1)
  ELSE [r |-> n + 1, mem |-> St(St(m, buffer + n, CH_QUOTE), buffer + n + 1, 0)]

json__stringify_string(m, string, buffer, length) ==
  IF length < 3 THEN [r |-> 0, mem |-> m]
  ELSE StringifyStringLoop(St(m, buffer, CH_QUOTE), string, buffer, length, 1)

\* The loop of json__reverse from index i on.
RECURSIVE ReverseLoop(_, _, _, _)
ReverseLoop(m, buffer, length, i) ==
  IF i < length \div 2
  THEN ReverseLoop(St(St(m, buffer + i, Rd(m, buffer + length - i - 1)),
                      buffer + length - i - 1, Rd(m, buffer + i)),
                   buffer, length, i + 1)
  ELSE m

json__reverse(m, buffer, length) == ReverseLoop(m, buffer, length, 0)

\* The do-while loop of json__stringify_number, n digits written, and the
\* code after it; negative is 0 or 1.
RECURSIVE StringifyDigits(_, _, _, _, _, _)
StringifyDigits(m, number, buffer, length, n, negative) ==
  IF length < n + 2 THEN [r |-> 0, mem |-> m]
  ELSE
    LET m1 == St(m, buffer + n, CH_0 + (number % 10)) IN
    IF number \div 10 > 0
    THEN StringifyDigits(m1, number \div 10, buffer, length, n + 1, negative)
    ELSE [r |-> n + 1 + negative,
          mem |-> St(json__reverse(m1, buffer, n + 1), buffer + n + 1, 0)]

\* json__stringify_number negating the minimum like any other negative
\* number: 0 - number wraps to number itself.
StringifyNumberNegates(number, m, buffer, length) ==
  IF number < 0 THEN
    IF length < 2 THEN [r |-> 0, mem |-> m]
    ELSE StringifyDigits(St(m, buffer, CH_MINUS),
                         IF SubOverflow(0, number) THEN number ELSE -number,
                         buffer + 1, length - 1, 0, 1)
  ELSE StringifyDigits(m, number, buffer, length, 0, 0)

json__stringify_number(number, m, buffer, length) ==
  IF number < 0 THEN
    IF length < 2 THEN [r |-> 0, mem |-> m]
    ELSE
      LET m1 == St(m, buffer, CH_MINUS) IN
      IF SubOverflow(0, number)
      THEN StringifyDigits(St(m1, buffer + 1, CH_1 + ((-(number + 1)) % 10)),
                           (-(number + 1)) \div 10, buffer + 1, length - 1, 1, 1)
      ELSE StringifyDigits(m1, -number, buffer + 1, length - 1, 0, 1)
  ELSE StringifyDigits(m, number, buffer, length, 0, 0)

RECURSIVE json_stringify(_, _, _, _)

\* The while loop of json__stringify_object from iterator i on, n chars
\* written, and the code after it.
RECURSIVE StringifyObjectLoop(_, _, _, _, _)
StringifyObjectLoop(m, i, buffer, length, n) ==
  IF i # 0 THEN
    IF n > 1 /\ length < n + 6 THEN [r |-> 0, mem |-> m]
    ELSE
      LET m1 == IF n > 1 THEN St(m, buffer + n, CH_COMMA) ELSE m
          n1 == IF n > 1 THEN n + 1 ELSE n
          ks == json__stringify_string(m1, Rd(m, i + OFF_KEY), buffer + n1, length - n1)
          n2 == n1 + ks.r
          m2 == St(ks.mem, buffer + n2, CH_COLON)
          vs == json_stringify(Rd(m, i + OFF_ENTRY_VALUE), m2, buffer + n2 + 1,
                               length - (n2 + 1))
      IN IF ks.r = 0 THEN [r |-> 0, mem |-> ks.mem]
         ELSE IF length < n2 + 4 THEN [r |-> 0, mem |-> ks.mem]
         ELSE IF vs.r = 0 THEN [r |-> 0, mem |-> vs.mem]
         ELSE StringifyObjectLoop(vs.mem, Rd(m, i + OFF_NEXT), buffer, length,
                                  n2 + 1 + vs.r)
  ELSE IF length < n + 2 THEN [r |-> 0, mem |-> m]
  ELSE [r |-> n + 1, mem |-> St(St(m, buffer + n, CH_RBRACE), buffer + n + 1, 0)]

json__stringify_object(object, m, buffer, length) ==
  IF length < 3 THEN [r |-> 0, mem |-> m]
  ELSE StringifyObjectLoop(St(m, buffer, CH_LBRACE), json_object_iterator(m, object),
                           buffer, length, 1)

\* The while loop of json__stringify_array from iterator i on, n chars
\* written, and the code after it.
RECURSIVE StringifyArrayLoop(_, _, _, _, _)
StringifyArrayLoop(m, i, buffer, length, n) ==
  IF i # 0 THEN
    IF n > 1 /\ length < n + 4 THEN [r |-> 0, mem |-> m]
    ELSE
      LET m1 == IF n > 1 THEN St(m, buffer + n, CH_COMMA) ELSE m
          n1 == IF n > 1 THEN n + 1 ELSE n
          vs == json_stringify(Rd(m, i + OFF_ELEMENT_VALUE), m1, buffer + n1, length - n1)
      IN IF vs.r = 0 THEN [r |-> 0, mem |-> vs.mem]
         ELSE StringifyArrayLoop(vs.mem, Rd(m, i + OFF_NEXT), buffer, length,
                                 n1 + vs.r)
  ELSE IF length < n + 2 THEN [r |-> 0, mem |-> m]
  ELSE [r |-> n + 1, mem |-> St(St(m, buffer + n, CH_RBRACKET), buffer + n + 1, 0)]

json__stringify_array(array, m, buffer, length) ==
  IF length < 3 THEN [r |-> 0, mem |-> m]
  ELSE StringifyArrayLoop(St(m, buffer, CH_LBRACKET), json_array_iterator(m, array),
                          buffer, length, 1)

\* The dispatch of json_stringify, before its r == 0 check.
StringifyDispatch(v, m, buffer, length) ==
  IF v = JSON_NULL THEN json__write(<<CH_n, CH_u, CH_l, CH_l>>, m, buffer, length)
  ELSE IF v = JSON_TRUE THEN json__write(<<CH_t, CH_r, CH_u, CH_e>>, m, buffer, length)
  ELSE IF v = JSON_FALSE THEN json__write(<<CH_f, CH_a, CH_l, CH_s, CH_e>>, m, buffer, length)
  ELSE IF json_is_number(v)
  THEN json__stringify_number(Rd(m, json__pointer(v)), m, buffer, length)
  ELSE IF json_is_string(v) THEN json__stringify_string(m, json__pointer(v), buffer, length)
  ELSE IF json_is_object(v) THEN json__stringify_object(v, m, buffer, length)
  ELSE IF json_is_array(v) THEN json__stringify_array(v, m, buffer, length)
  ELSE [r |-> 0, mem |-> m]

json_stringify(v, m, buffer, length) ==
  LET d == StringifyDispatch(v, m, buffer, length) IN
  IF d.r = 0 /\ length > 0 THEN [r |-> 0, mem |-> St(d.mem, buffer, 0)]
  ELSE d

----------------------------------------------------------------------------
(* The caller's memory: where test.c's main keeps its arena buffer, its    *)
(* JSON text and its output buffer.                                        *)

\* uint8_t memory[]: json_arena_init gets it at an aligned or at an
\* unaligned address.
MemoryAddrs == {8 * SIZEOF_PTR, 8 * SIZEOF_PTR - 3}
\* const char *json
TextBase == 64 * SIZEOF_PTR
\* char s[]
BufBase == 128 * SIZEOF_PTR
\* The string literals main passes as keys and to json_string: two equal
\* strings at different addresses, and a different one.
KeyA == 96 * SIZEOF_PTR
KeyA2 == 97 * SIZEOF_PTR
KeyB == 98 * SIZEOF_PTR
\* A literal at an address that is not a multiple of 4.
KeyOdd == 99 * SIZEOF_PTR + 2

\* Memory m with the chars of text at address at, NUL-terminated.
RECURSIVE PlaceFrom(_, _, _, _)
PlaceFrom(m, at, text, i) ==
  IF i > Len(text) THEN St(m, at + Len(text), 0)
  ELSE PlaceFrom(St(m, at + i - 1, text[i]), at, text, i + 1)

Place(m, at, text) == PlaceFrom(m, at, text, 1)

\* The empty memory.
NoMem == <<>>

----------------------------------------------------------------------------
(* What a JsonValue denotes: its classification with its payload, read     *)
(* through the accessors and the iterators.                                *)

RECURSIVE EntriesDenoted(_, _)
RECURSIVE ElementsDenoted(_, _)

Denoted(m, v) ==
  CASE json_is_number(v) -> <<"Number", json_number_get(m, v)>>
    [] json_is_string(v) -> <<"String", CStr(m, json_string_get(v))>>
    [] json_is_object(v) -> <<"Object", EntriesDenoted(m, json_object_iterator(m, v))>>
    [] json_is_array(v) -> <<"Array", ElementsDenoted(m, json_array_iterator(m, v))>>
    [] OTHER -> <<Classify(v)>>

EntriesDenoted(m, i) ==
  IF i = 0 THEN <<>>
  ELSE <<<<CStr(m, Rd(m, i + OFF_KEY)), Denoted(m, Rd(m, i + OFF_ENTRY_VALUE))>>>>
       \o EntriesDenoted(m, Rd(m, i + OFF_NEXT))

ElementsDenoted(m, i) ==
  IF i = 0 THEN <<>>
  ELSE <<Denoted(m, Rd(m, i + OFF_ELEMENT_VALUE))>>
       \o ElementsDenoted(m, Rd(m, i + OFF_NEXT))

----------------------------------------------------------------------------
(* The texts the parser is run on.                                         *)

\* Valid JSON value texts.
ValidTexts ==
  {
    <<CH_n, CH_u, CH_l, CH_l>>,
    <<CH_t, CH_r, CH_u, CH_e>>,
    <<CH_f, CH_a, CH_l, CH_s, CH_e>>,
    T(<<"0">>),
    T(<<"-", "1", "2">>),
    T(<<"\"", "\"">>),
    T(<<"\"", "a", "\"">>),
    T(<<"\"", "a", "\\", "n", "\\", "\\", "\"">>),
    T(<<"\"", "\\", "b", "\\", "f", "\"">>),
    T(<<"[", "]">>),
    T(<<"{", "}">>),
    T(<<"[", "1", ",", "\"", "b", "\"", "]">>),
    T(<<"{", "\"", "a", "\"", ":", "1", "}">>),
    T(<<"{", "\"", "a", "\"", ":", "[", "1", ",", "\"", "b", "\\", "n", "\"", "]", "}">>),
    T(<<"{", " ", "\"", "a", "\"", " ", ":", "\t", "[", " ", "1", " ", ",", " ", "\"", "b", "\"", " ", "]", "\r", "\n", "}">>),
    T(<<"[", "{", "\"", "a", "\"", ":", "\"", "b", "\"", "}", ",", "2", "]">>),
    T(<<"{", "\"", "a", "\"", ":", "1", ",", "\"", "a", "\"", ":", "2", "}">>),
    T(<<"[", "t", "r", "u", "e", ",", "f", "a", "l", "s", "e", ",", "n", "u", "l", "l", "]">>)
  }

\* Documents whose every proper prefix is tried.
NestedObjectDoc == T(<<"{", "\"", "a", "\"", ":", "[", "1", ",", "\"", "b", "\\", "n", "\"", "]", "}">>)
NestedArrayDoc == T(<<"[", "{", "\"", "a", "\"", ":", "\"", "b", "\"", "}", ",", "-", "2", "]">>)

ProperPrefixes(d) == {SubSeq(d, 1, k) : k \in 0..(Len(d) - 1)}

PrefixTexts == ProperPrefixes(NestedObjectDoc) \cup ProperPrefixes(NestedArrayDoc)

\* Object texts with a member position, after the { or after a , separator,
\* that does not begin with a double quote.
BadKeyTexts ==
  {
    T(<<"{", "x", "\"", ":", "1", "}">>),
    T(<<"{", "1", ":", "2", "}">>),
    T(<<"{", "\"", "a", "\"", ":", "1", ",", "x", "\"", ":", "2", "}">>),
    T(<<"{", "\"", "a", "\"", ":", "1", ",", "}">>),
    T(<<"{", "\"", "a", "\"", ":", "1", ",", "}", "\"", ":", "2", "}">>),
    T(<<"{", "\"", "a", "\"", ":", "1", ",", ",", "\"", "b", "\"", ":", "2", "}">>)
  }

\* Texts whose first char opens no JSON value.
UnrecognizedTexts ==
  {
    <<>>,
    T(<<"x">>),
    T(<<"}">>),
    T(<<"]">>),
    T(<<":">>),
    T(<<",">>),
    T(<<"/">>),
    T(<<"x80">>),
    T(<<".", "5">>)
  }

\* Other malformed texts.
MalformedTexts ==
  {
    T(<<"{", "\"", "a", "\"", " ", "1", "}">>),
    T(<<"{", "\"", "a", "\"", ":", "}">>),
    T(<<"[", "1", " ", "2", "]">>),
    T(<<"[", "1", ",", "]">>),
    T(<<"\"", "a">>),
    T(<<"\"", "\\", "x", "\"">>),
    T(<<"\"", "\t", "\"">>),
    T(<<"t", "r", "u">>),
    T(<<"n", "u", "l">>),
    T(<<"-">>),
    T(<<"{", "\"", "a", "\"", ":", "1">>),
    T(<<"[">>),
    T(<<"{">>),
    T(<<"+">>),
    T(<<"\"", "\\", "u", "0", "0", "0", "8", "\"">>)
  }

ParseTexts ==
  ValidTexts \cup PrefixTexts \cup BadKeyTexts \cup UnrecognizedTexts \cup MalformedTexts

\* Whitespace the caller's text may begin with.
WsPrefixes == {<<>>, T(<<" ">>), T(<<"\t", "\r", "\n", " ">>)}

\* What the caller's memory holds after the text's terminating NUL: nothing
\* the model stores (it reads as 0), or chars left there by earlier use.
Tails == {<<>>, T(<<"k", "\"", ":", "1", "}">>)}

----------------------------------------------------------------------------
(* The parser's specification: the caller initialises an arena over its    *)
(* buffer, fills it to some level with json_arena_alloc, and parses its    *)
(* text, either at its first char or, as json__parse_object,               *)
(* json__parse_array and test.c's main do, after json__skip_whitespace.    *)

ParseInputs ==
  [w : WsPrefixes, t : ParseTexts, tail : Tails, memory : MemoryAddrs]

\* The memory the caller starts with: the text, its NUL, and the tail.
TextMemory(in) ==
  Place(Place(NoMem, TextBase + Len(in.w \o in.t) + 1, in.tail), TextBase, in.w \o in.t)

InitParse ==
  /\ input \in ParseInputs
  /\ pc = "fill"
  /\ arena = json_arena_init(input.memory, ArenaLen).arena
  /\ mem = TextMemory(input)
  /\ op = [name |-> "json_arena_init"]

AllocSizes == {1, SIZEOF_OBJECT}

ArenaAlloc(size) ==
  /\ pc = "fill"
  /\ LET al == json_arena_alloc(arena, size) IN
       /\ arena' = al.arena
       /\ op' = [name |-> "json_arena_alloc", r |-> al.r]
  /\ UNCHANGED <<pc, mem, input>>

\* json_parse(json, arena, &v) with v = JSON_UNDEFINED before the call.
ParseAt(json, name) ==
  LET r == json_parse(json, arena, mem, JSON_UNDEFINED) IN
    /\ pc' = "parsed"
    /\ arena' = r.arena
    /\ mem' = r.mem
    /\ op' = [name |-> name, json |-> json, heap0 |-> arena.heap,
              p |-> r.p, result |-> r.result]
    /\ UNCHANGED input

JsonParse ==
  /\ pc \in {"fill", "ready"}
  /\ ParseAt(TextBase, "json_parse")

SkipParse ==
  /\ pc = "fill"
  /\ ParseAt(json__skip_whitespace(mem, TextBase), "skip_parse")

NextParse ==
  \/ \E size \in AllocSizes : ArenaAlloc(size)
  \/ JsonParse
  \/ SkipParse

SpecParse == InitParse /\ [][NextParse]_vars

----------------------------------------------------------------------------
(* Claims about the parser, under SpecParse.                               *)

\* The address one past the caller's text.
TextEnd == TextBase + Len(input.w) + Len(input.t)

\* C1: whenever a top-level json_parse returns failure (0), the arena's
\* allocation offset after the call equals its value before the call, at
\* every fill level of the arena and for every text, the proper prefixes of
\* valid nested documents among them.
C1_ParseFailureKeepsHeap ==
  (pc = "parsed" /\ op.p = 0) => arena.heap = op.heap0

\* A failed parse of a truncated nested document in a part-filled arena,
\* after the parser decoded a string into the arena above the offset it
\* then restored.
C1_Witness ==
  /\ pc = "parsed" /\ op.name = "json_parse" /\ op.p = 0
  /\ input.w = <<>>
  /\ input.t = SubSeq(NestedObjectDoc, 1, Len(NestedObjectDoc) - 1)
  /\ op.heap0 > 0
  /\ arena.heap = op.heap0
  /\ Rd(mem, arena.buffer + op.heap0 + SIZEOF_OBJECT) = CH_a

\* The parse of the text t alone from the arena as it was before the call.
Reference ==
  json_parse(TextBase, [arena EXCEPT !.heap = op.heap0],
             Place(NoMem, TextBase, input.t), JSON_UNDEFINED)

\* C7 as amended: json_parse dispatches on the first character of its text
\* and skips no leading whitespace.  For a valid text t that json_parse
\* accepts and a non-empty whitespace prefix w, json_parse(w + t) fails;
\* json_parse at the position json__skip_whitespace returns for w + t
\* succeeds with the same value as json_parse(t) and returns the position
\* immediately after t.  An unrecognized leading character is a failure.
C7_DispatchOnFirstChar ==
  /\ (pc = "parsed" /\ input.t \in ValidTexts /\ Reference.p # 0) =>
       /\ (op.name = "json_parse" /\ input.w # <<>>) => op.p = 0
       /\ op.name = "skip_parse" =>
            /\ op.p = TextEnd
            /\ Denoted(mem, op.result) = Denoted(Reference.mem, Reference.result)
  /\ (pc = "parsed" /\ op.name = "json_parse" /\ input.w = <<>>
        /\ input.t \in UnrecognizedTexts) => op.p = 0

\* A nested document behind tab, CR, LF and space, parsed after the caller
\* skipped them.
C7_Witness ==
  /\ pc = "parsed" /\ op.name = "skip_parse"
  /\ Len(input.w) = 4
  /\ input.t = NestedObjectDoc
  /\ op.p = TextEnd
  /\ Denoted(mem, op.result) =
       <<"Object", <<<<<<CH_a>>, <<"Array", <<<<"Number", 1>>, <<"String", <<CH_b, CH_LF>>>>>>>>>>>>>>

\* C7 as stated: json_parse(w + t) succeeds for every whitespace prefix w and
\* returns the position after t.
C7_Original ==
  (pc = "parsed" /\ op.name = "json_parse" /\ input.t \in ValidTexts /\ op.heap0 = 0)
    => op.p = TextEnd

\* C9: json_parse returns 0 for every object text with a member position,
\* after the { or after a , separator, that does not begin with a double
\* quote; no trailing-comma form is accepted whatever follows it.
C9_KeyOpensWithQuote ==
  (pc = "parsed" /\ op.name = "json_parse" /\ input.w = <<>> /\ input.tail = <<>>
     /\ input.t \in BadKeyTexts) => op.p = 0

----------------------------------------------------------------------------
(* Number tokens, under SpecNum: the caller parses a text that is an       *)
(* optional sign and decimal digits into an empty arena.                   *)

\* The most digits appended to a stem.
MaxTailDigits == 2

Signs == {<<>>, <<CH_PLUS>>, <<CH_MINUS>>}

\* Digit strings around the ends of the int32 range.
Stems ==
  { <<>>, T(<<"0">>), T(<<"0", "0">>), T(<<"1">>), T(<<"9", "9", "9", "9", "9", "9", "9", "9">>),
    T(<<"2", "1", "4", "7", "4", "8", "3">>), T(<<"2", "1", "4", "7", "4", "8", "3", "6">>),
    T(<<"2", "1", "4", "7", "4", "8", "3", "6", "4">>),
    T(<<"0", "2", "1", "4", "7", "4", "8", "3", "6", "4">>) }

DigitTails == UNION {[1..k -> CH_0..CH_9] : k \in 0..MaxTailDigits}

NumInputs ==
  [sign : Signs, stem : Stems, digits : DigitTails, memory : MemoryAddrs]

\* The token of a number input.
Token(in) == in.sign \o in.stem \o in.digits

InitNum ==
  /\ \E in \in NumInputs :
       input = [w |-> <<>>, t |-> Token(in), tail |-> <<>>, memory |-> in.memory,
                sign |-> in.sign, ds |-> in.stem \o in.digits]
  /\ pc = "ready"
  /\ arena = json_arena_init(input.memory, ArenaLen).arena
  /\ mem = TextMemory(input)
  /\ op = [name |-> "json_arena_init"]

NextNum == JsonParse

SpecNum == InitNum /\ [][NextNum]_vars

\* The digit string ds without its leading zeros.
RECURSIVE StripZeros(_)
StripZeros(ds) ==
  IF Len(ds) > 1 /\ ds[1] = CH_0 THEN StripZeros(Tail(ds)) ELSE ds

\* Whether digit string x is at most digit string y of the same length.
RECURSIVE DigitsLeq(_, _)
DigitsLeq(x, y) ==
  IF x = <<>> THEN TRUE
  ELSE IF x[1] # y[1] THEN x[1] < y[1]
  ELSE DigitsLeq(Tail(x), Tail(y))

\* The digits of 2147483647 and of 2147483648.
MaxDigits == T(<<"2", "1", "4", "7", "4", "8", "3", "6", "4", "7">>)
MinDigits == T(<<"2", "1", "4", "7", "4", "8", "3", "6", "4", "8">>)

\* Whether the number a sign and a non-empty digit string denote lies in
\* [-2147483648, 2147483647].
InInt32(sign, ds) ==
  LET x == StripZeros(ds)
      limit == IF sign = <<CH_MINUS>> THEN MinDigits ELSE MaxDigits
  IN Len(x) < Len(limit) \/ (Len(x) = Len(limit) /\ DigitsLeq(x, limit))

RECURSIVE Pow10(_)
Pow10(k) == IF k = 0 THEN 1 ELSE 10 * Pow10(k - 1)

\* The number a sign and a digit string in the int32 range denote: the sum
\* of digit * 10^place, each term negated under a minus sign.
RECURSIVE PlaceSum(_, _)
PlaceSum(x, s) ==
  IF x = <<>> THEN 0
  ELSE s * (x[1] - CH_0) * Pow10(Len(x) - 1) + PlaceSum(Tail(x), s)

NumberDenoted(sign, ds) ==
  PlaceSum(StripZeros(ds), IF sign = <<CH_MINUS>> THEN -1 ELSE 1)

\* C8: for a token of an optional + or - and one or more decimal digits,
\* json_parse into an arena with room succeeds if and only if the number
\* lies in [-2147483648, 2147483647], and then it consumes the token and
\* stores exactly that number; a token out of the range, and a sign with no
\* digit after it, is a failure.
C8_NumberTokens ==
  pc = "parsed" =>
    IF input.ds # <<>> /\ InInt32(input.sign, input.ds)
    THEN /\ op.p = TextEnd
         /\ json_is_number(op.result)
         /\ json_number_get(mem, op.result) = NumberDenoted(input.sign, input.ds)
    ELSE op.p = 0

\* -2147483648 parsed to the minimum of the type.
C8_Witness ==
  /\ pc = "parsed"
  /\ input.sign = <<CH_MINUS>> /\ input.ds = MinDigits
  /\ op.p = TextEnd
  /\ json_number_get(mem, op.result) = INT32_MIN

----------------------------------------------------------------------------
(* The stringifier's specification: the caller builds a value (by parsing  *)
(* a text, with json_number_new, or with json_string over a string         *)
(* literal), stringifies it into its buffer s of some length, and parses   *)
(* the text in s back into the arena.                                      *)

\* The caller's string literals.
LitEmpty == 100 * SIZEOF_PTR
LitControl == 101 * SIZEOF_PTR
LitEscaped == 102 * SIZEOF_PTR
LitHigh == 103 * SIZEOF_PTR

\* The memory holding the literals.
Literals ==
  Place(Place(Place(Place(Place(Place(Place(Place(NoMem,
    KeyA, T(<<"a">>)),
    KeyA2, T(<<"a">>)),
    KeyB, T(<<"b">>)),
    KeyOdd, T(<<"a">>)),
    LitEmpty, <<>>),
    LitControl, <<1, 31, 8>>),
    LitEscaped, T(<<"\"", "\\", "\r", "\n", "\t">>)),
    LitHigh, <<128, 255, 127>>)

\* The values built: how, from what, and the JSON text of the value.
StrInputs ==
  {
    [how |-> "json_parse", t |-> T(<<"n", "u", "l", "l">>),
     text |-> T(<<"n", "u", "l", "l">>)],
    [how |-> "json_parse", t |-> T(<<"t", "r", "u", "e">>),
     text |-> T(<<"t", "r", "u", "e">>)],
    [how |-> "json_parse", t |-> T(<<"f", "a", "l", "s", "e">>),
     text |-> T(<<"f", "a", "l", "s", "e">>)],
    [how |-> "json_parse", t |-> T(<<"0">>),
     text |-> T(<<"0">>)],
    [how |-> "json_parse", t |-> T(<<"-", "1", "2">>),
     text |-> T(<<"-", "1", "2">>)],
    [how |-> "json_parse", t |-> T(<<"+", "5">>),
     text |-> T(<<"5">>)],
    [how |-> "json_parse", t |-> T(<<"0", "0", "7">>),
     text |-> T(<<"7">>)],
    [how |-> "json_parse", t |-> T(<<"\"", "\"">>),
     text |-> T(<<"\"", "\"">>)],
    [how |-> "json_parse", t |-> T(<<"\"", "a", "\"">>),
     text |-> T(<<"\"", "a", "\"">>)],
    [how |-> "json_parse", t |-> T(<<"\"", "a", "\\", "n", "\\", "\\", "\"">>),
     text |-> T(<<"\"", "a", "\\", "n", "\\", "\\", "\"">>)],
    [how |-> "json_parse", t |-> T(<<"\"", "\\", "/", "\"">>),
     text |-> T(<<"\"", "/", "\"">>)],
    [how |-> "json_parse", t |-> T(<<"\"", "\\", "b", "\\", "f", "\"">>),
     text |-> T(<<"\"", "\\", "u", "0", "0", "0", "8", "\\", "u", "0", "0", "0", "c", "\"">>)],
    [how |-> "json_parse", t |-> T(<<"[", "]">>),
     text |-> T(<<"[", "]">>)],
    [how |-> "json_parse", t |-> T(<<"{", "}">>),
     text |-> T(<<"{", "}">>)],
    [how |-> "json_parse", t |-> T(<<"[", "1", "]">>),
     text |-> T(<<"[", "1", "]">>)],
    [how |-> "json_parse", t |-> T(<<"[", "1", ",", "\"", "b", "\"", "]">>),
     text |-> T(<<"[", "1", ",", "\"", "b", "\"", "]">>)],
    [how |-> "json_parse", t |-> T(<<"{", "\"", "a", "\"", ":", "1", "}">>),
     text |-> T(<<"{", "\"", "a", "\"", ":", "1", "}">>)],
    [how |-> "json_parse", t |-> T(<<"{", "\"", "\"", ":", "-", "1", "}">>),
     text |-> T(<<"{", "\"", "\"", ":", "-", "1", "}">>)],
    [how |-> "json_parse", t |-> T(<<"{", "\"", "a", "\"", ":", "[", "1", ",", "\"", "b", "\\", "n", "\"", "]", "}">>),
     text |-> T(<<"{", "\"", "a", "\"", ":", "[", "1", ",", "\"", "b", "\\", "n", "\"", "]", "}">>)],
    [how |-> "json_parse", t |-> T(<<"{", " ", "\"", "a", "\"", " ", ":", "\t", "[", " ", "1", " ", ",", " ", "\"", "b", "\"", " ", "]", "\r", "\n", "}">>),
     text |-> T(<<"{", "\"", "a", "\"", ":", "[", "1", ",", "\"", "b", "\"", "]", "}">>)],
    [how |-> "json_parse", t |-> T(<<"[", "{", "\"", "a", "\"", ":", "\"", "b", "\"", "}", ",", "2", "]">>),
     text |-> T(<<"[", "{", "\"", "a", "\"", ":", "\"", "b", "\"", "}", ",", "2", "]">>)],
    [how |-> "json_parse", t |-> T(<<"{", "\"", "a", "\"", ":", "1", ",", "\"", "a", "\"", ":", "2", "}">>),
     text |-> T(<<"{", "\"", "a", "\"", ":", "1", ",", "\"", "a", "\"", ":", "2", "}">>)],
    [how |-> "json_parse", t |-> T(<<"[", "t", "r", "u", "e", ",", "f", "a", "l", "s", "e", ",", "n", "u", "l", "l", "]">>),
     text |-> T(<<"[", "t", "r", "u", "e", ",", "f", "a", "l", "s", "e", ",", "n", "u", "l", "l", "]">>)],
    [how |-> "json_parse", t |-> T(<<"[", "[", "]", ",", "{", "}", "]">>),
     text |-> T(<<"[", "[", "]", ",", "{", "}", "]">>)],
    [how |-> "json_number_new", number |-> INT32_MIN,
     text |-> T(<<"-", "2", "1", "4", "7", "4", "8", "3", "6", "4", "8">>)],
    [how |-> "json_number_new", number |-> -INT32_MAX,
     text |-> T(<<"-", "2", "1", "4", "7", "4", "8", "3", "6", "4", "7">>)],
    [how |-> "json_number_new", number |-> INT32_MAX,
     text |-> T(<<"2", "1", "4", "7", "4", "8", "3", "6", "4", "7">>)],
    [how |-> "json_number_new", number |-> 0,
     text |-> T(<<"0">>)],
    [how |-> "json_number_new", number |-> -1,
     text |-> T(<<"-", "1">>)],
    [how |-> "json_number_new", number |-> 9,
     text |-> T(<<"9">>)],
    [how |-> "json_number_new", number |-> 10,
     text |-> T(<<"1", "0">>)],
    [how |-> "json_number_new", number |-> -10,
     text |-> T(<<"-", "1", "0">>)],
    [how |-> "json_number_new", number |-> -2147483639,
     text |-> T(<<"-", "2", "1", "4", "7", "4", "8", "3", "6", "3", "9">>)],
    [how |-> "json_number_new", number |-> 1000000000,
     text |-> T(<<"1", "0", "0", "0", "0", "0", "0", "0", "0", "0">>)],
    [how |-> "json_string", s |-> KeyA,
     text |-> T(<<"\"", "a", "\"">>)],
    [how |-> "json_string", s |-> KeyB,
     text |-> T(<<"\"", "b", "\"">>)],
    [how |-> "json_string", s |-> LitEmpty,
     text |-> T(<<"\"", "\"">>)],
    [how |-> "json_string", s |-> LitControl,
     text |-> T(<<"\"", "\\", "u", "0", "0", "0", "1", "\\", "u", "0", "0", "1", "f", "\\", "u", "0", "0", "0", "8", "\"">>)],
    [how |-> "json_string", s |-> LitEscaped,
     text |-> T(<<"\"", "\\", "\"", "\\", "\\", "\\", "r", "\\", "n", "\\", "t", "\"">>)],
    [how |-> "json_string", s |-> LitHigh,
     text |-> <<34, 128, 255, 127, 34>>]
  }


InitStr ==
  /\ input \in StrInputs
  /\ pc = "build"
  /\ arena = json_arena_init(8 * SIZEOF_PTR, StrArenaLen).arena
  /\ mem = IF input.how = "json_parse" THEN Place(Literals, TextBase, input.t) ELSE Literals
  /\ op = [name |-> "json_arena_init"]

BuildParse ==
  /\ pc = "build" /\ input.how = "json_parse"
  /\ LET r == json_parse(TextBase, arena, mem, JSON_UNDEFINED) IN
       /\ arena' = r.arena
       /\ mem' = r.mem
       /\ op' = [name |-> "json_parse", p |-> r.p, v |-> r.result]
  /\ pc' = "built"
  /\ UNCHANGED input

BuildNumber ==
  /\ pc = "build" /\ input.how = "json_number_new"
  /\ LET r == json_number_new(arena, mem, input.number) IN
       /\ arena' = r.arena
       /\ mem' = r.mem
       /\ op' = [name |-> "json_number_new", v |-> r.v]
  /\ pc' = "built"
  /\ UNCHANGED input

BuildString ==
  /\ pc = "build" /\ input.how = "json_string"
  /\ op' = [name |-> "json_string", v |-> json_string(input.s)]
  /\ pc' = "built"
  /\ UNCHANGED <<arena, mem, input>>

\* json_stringify(v, s, length); written is the set of addresses it stored to.
Stringify(length) ==
  /\ pc = "built"
  /\ LET r == json_stringify(op.v, mem, BufBase, length) IN
       /\ mem' = r.mem
       /\ op' = [name |-> "json_stringify", v |-> op.v, length |-> length, r |-> r.r,
                 written |-> DOMAIN r.mem \ DOMAIN mem]
  /\ pc' = "strung"
  /\ UNCHANGED <<arena, input>>

\* json_parse(s, arena, &v) of the text json_stringify left in s.
ParseBack ==
  /\ pc = "strung" /\ op.r # 0
  /\ LET r == json_parse(BufBase, arena, mem, JSON_UNDEFINED) IN
       /\ arena' = r.arena
       /\ mem' = r.mem
       /\ op' = [name |-> "parse_back", v |-> op.v, length |-> op.length, r |-> op.r,
                 heap0 |-> arena.heap, p |-> r.p, result |-> r.result]
  /\ pc' = "back"
  /\ UNCHANGED input

NextStr ==
  \/ BuildParse
  \/ BuildNumber
  \/ BuildString
  \/ \E length \in 0..MaxBufLen : Stringify(length)
  \/ ParseBack

SpecStr == InitStr /\ [][NextStr]_vars

----------------------------------------------------------------------------
(* Claims about the stringifier, under SpecStr.                            *)

\* C2: for every value built, json_stringify into a buffer large enough
\* followed by json_parse of that text into an arena with enough room
\* succeeds and yields a value of the same classification, the same number
\* or string, and the same ordered entries or elements; strings with control
\* characters below 0x20 such as backspace and form feed among them.
C2_RoundTrip ==
  (pc = "back" /\ arena.size - op.heap0 >= op.heap0 + op.r + JSON__ALIGNMENT) =>
    /\ op.p = BufBase + op.r
    /\ Denoted(mem, op.result) = Denoted(mem, op.v)

\* C3: json_stringify stores only to buffer[0 .. length - 1], whether it
\* succeeds or fails, for every value and every length from 0 on.
C3_BoundsSafety ==
  pc = "strung" =>
    \A a \in op.written : BufBase <= a /\ a < BufBase + op.length

\* A failing json_stringify of a nested object that stored to the last byte
\* of the buffer before it gave up.
C3_Witness ==
  /\ pc = "strung"
  /\ json_is_object(op.v)
  /\ json_array_iterator(mem, json_object_get(mem, op.v, KeyA)) # 0
  /\ op.r = 0
  /\ op.length > 2
  /\ BufBase + op.length - 1 \in op.written

\* The numbers of C4 and their decimal texts.
Extremes == {INT32_MIN, -INT32_MAX, INT32_MAX}

\* C4: for -2147483648, 2147483647 and -2147483647, json_stringify writes
\* the exact decimal text, and json_parse of that text returns a Number
\* whose json_number_get is the original number.
C4_NumericExtremes ==
  (input.how = "json_number_new" /\ input.number \in Extremes) =>
    /\ (pc = "strung" /\ op.length > Len(input.text)) =>
         /\ op.r = Len(input.text)
         /\ CStr(mem, BufBase) = input.text
    /\ pc = "back" =>
         /\ op.p = BufBase + op.r
         /\ json_is_number(op.result)
         /\ op.result # op.v
         /\ json_number_get(mem, op.result) = input.number

\* The minimum stringified as -2147483648 and parsed back to the minimum.
C4_Witness ==
  /\ pc = "back"
  /\ input.how = "json_number_new" /\ input.number = INT32_MIN
  /\ CStr(mem, BufBase) =
       <<CH_MINUS, 50, 49, 52, 55, 52, 56, 51, 54, 52, 56>>
  /\ json_number_get(mem, op.result) = INT32_MIN

\* C10: for a value whose JSON text has length L, json_stringify with buffer
\* length n returns L and leaves the NUL-terminated text if n >= L + 1, and
\* returns 0 with buffer[0] = 0 (when n > 0) if n <= L.
C10_FailsOnlyOnOverflow ==
  pc = "strung" =>
    IF op.length >= Len(input.text) + 1
    THEN op.r = Len(input.text) /\ CStr(mem, BufBase) = input.text
    ELSE op.r = 0 /\ (op.length > 0 => BufBase \in DOMAIN mem /\ mem[BufBase] = 0)

----------------------------------------------------------------------------
(* The builder API on one object: SpecBuild.  The arena holds the object   *)
(* and BuildArenaLen - SIZEOF_OBJECT bytes of entries; keys are the        *)
(* caller's strings of Literals, two of them equal byte-wise at different  *)
(* addresses.                                                              *)

BuildKeys == {KeyA, KeyA2, KeyB, KeyOdd}
BuildValues == {JSON_TRUE, JSON_NULL}

InitBuild ==
  /\ pc = "new"
  /\ input \in [memory : MemoryAddrs]
  /\ arena = json_arena_init(input.memory, BuildArenaLen).arena
  /\ mem = Literals
  /\ op = [name |-> "json_arena_init", object |-> JSON_UNDEFINED]

\* What a call leaves in op besides its own fields: the object, the entries
\* and the arena offset before the call.
Before == [object |-> op.object,
           before |-> ObjectEntries(mem, json_object_iterator(mem, op.object)),
           heap0 |-> json_arena_save(arena)]

ObjectNew ==
  /\ pc = "new"
  /\ LET r == json_object_new(arena, mem) IN
       /\ arena' = r.arena
       /\ mem' = r.mem
       /\ op' = [name |-> "json_object_new", object |-> r.v]
  /\ pc' = "built"
  /\ UNCHANGED input

ObjectAppend(key, value) ==
  /\ pc = "built"
  /\ LET r == json_object_append(arena, mem, op.object, key, value) IN
       /\ arena' = r.arena
       /\ mem' = r.mem
       /\ op' = [name |-> "json_object_append", key |-> key, value |-> value,
                 ret |-> r.ret] @@ Before
  /\ UNCHANGED <<pc, input>>

ObjectSet(key, value) ==
  /\ pc = "built"
  /\ LET r == json_object_set(arena, mem, op.object, key, value) IN
       /\ arena' = r.arena
       /\ mem' = r.mem
       /\ op' = [name |-> "json_object_set", key |-> key, value |-> value,
                 ret |-> r.ret] @@ Before
  /\ UNCHANGED <<pc, input>>

\* json_object_get on the object or on a value that is not an Object.
ObjectGet(target, key) ==
  /\ pc = "built"
  /\ op' = [name |-> "json_object_get", target |-> target, key |-> key,
            result |-> json_object_get(mem, target, key)] @@ Before
  /\ UNCHANGED <<pc, arena, mem, input>>

NextBuild ==
  \/ ObjectNew
  \/ \E key \in BuildKeys, value \in BuildValues : ObjectAppend(key, value)
  \/ \E key \in BuildKeys, value \in BuildValues : ObjectSet(key, value)
  \/ \E key \in BuildKeys :
       \E target \in {op.object, JSON_NULL, json_string(KeyB), json_string(KeyOdd)} :
         ObjectGet(target, key)

SpecBuild == InitBuild /\ [][NextBuild]_vars

----------------------------------------------------------------------------
(* Claims about the builder, under SpecBuild.                              *)

\* The entries of the object now.
Entries == ObjectEntries(mem, json_object_iterator(mem, op.object))

\* The indices of the entries of es whose key is byte-wise equal to key.
Holding(es, key) == {k \in 1..Len(es) : CStr(mem, es[k].key) = CStr(mem, key)}

\* The least index of a non-empty set of indices.
First(ks) == CHOOSE k \in ks : \A j \in ks : k <= j

\* json_object_set of a key that is present: the first entry with that key
\* holds the new value, nothing else changes and nothing is allocated.
SetOverwrites ==
  /\ op.ret = 0
  /\ arena.heap = op.heap0
  /\ Entries = [op.before EXCEPT ![First(Holding(op.before, op.key))].value = op.value]

\* One entry more at the tail, allocated at the old arena offset.
AddsOneEntry ==
  /\ op.ret = 0
  /\ arena.heap = op.heap0 + SIZEOF_ENTRY
  /\ Entries = Append(op.before, [e |-> arena.buffer + op.heap0,
                                  key |-> op.key, value |-> op.value])

\* Nothing changes and the call reports failure.
AddsNothing ==
  /\ op.ret = -1
  /\ arena.heap = op.heap0
  /\ Entries = op.before

\* json_object_get returns the value of the first entry in insertion order
\* whose key is byte-wise equal, Undefined if there is none or the value is
\* not an Object.
GetFirstMatch ==
  op.result = IF json_is_object(op.target) /\ Holding(op.before, op.key) # {}
              THEN op.before[First(Holding(op.before, op.key))].value
              ELSE JSON_UNDEFINED

\* C5 as stated: json_object_set of a key already present overwrites the
\* first entry with that key and allocates nothing; json_object_set of an
\* absent key and json_object_append always add exactly one entry at the
\* tail; json_object_get returns the value of the first entry whose key is
\* byte-wise equal, Undefined if none or the value is not an Object.
C5_Original ==
  /\ op.name = "json_object_set" =>
       IF Holding(op.before, op.key) # {} THEN SetOverwrites ELSE AddsOneEntry
  /\ op.name = "json_object_append" => AddsOneEntry
  /\ op.name = "json_object_get" => GetFirstMatch

\* C5 amended: as C5, but json_object_set of an absent key and
\* json_object_append add exactly one entry at the tail when the arena has
\* room for an entry, and otherwise return -1 and change nothing.
C5_SetAppendGet ==
  LET room == arena.stack - op.heap0 >= SIZEOF_ENTRY IN
  /\ op.name = "json_object_set" =>
       IF Holding(op.before, op.key) # {} THEN SetOverwrites
       ELSE IF room THEN AddsOneEntry ELSE AddsNothing
  /\ op.name = "json_object_append" =>
       IF room THEN AddsOneEntry ELSE AddsNothing
  /\ op.name = "json_object_get" => GetFirstMatch

\* json_object_set of a key held by two entries (the second one appended
\* under an equal key at another address) replaced the value of the first
\* and left the second.
C5_Witness ==
  /\ op.name = "json_object_set"
  /\ Cardinality(Holding(op.before, op.key)) = 2
  /\ First(Holding(op.before, op.key)) = 2
  /\ Len(Entries) = 3
  /\ Entries[2].value = op.value /\ op.before[2].value # op.value
  /\ Entries[3].value # op.value
  /\ Entries[2].key # op.key

----------------------------------------------------------------------------
(* The typed constructors over caller addresses: SpecTag.                  *)

InitTag ==
  /\ pc = "ready"
  /\ input \in [a : 0..MaxAddr]
  /\ arena = json_arena_init(8 * SIZEOF_PTR, ArenaLen).arena
  /\ mem = NoMem
  /\ op = [name |-> "json_arena_init"]

WrapString ==
  /\ pc = "ready"
  /\ op' = [name |-> "json_string", v |-> json_string(input.a)]
  /\ pc' = "wrapped"
  /\ UNCHANGED <<arena, mem, input>>

WrapNumber ==
  /\ pc = "ready"
  /\ op' = [name |-> "json_number_extern", v |-> json_number_extern(input.a)]
  /\ pc' = "wrapped"
  /\ UNCHANGED <<arena, mem, input>>

NextTag == WrapString \/ WrapNumber

SpecTag == InitTag /\ [][NextTag]_vars

\* C6: json_string(a) and json_number_extern(a) return Undefined when a is
\* null or its low two bits are not zero, and otherwise a word that
\* classifies as String (resp. Number); never a word of another type.
C6_TypedConstructors ==
  pc = "wrapped" =>
    Classify(op.v) = IF input.a = 0 \/ input.a % 4 # 0 THEN "Undefined"
                     ELSE IF op.name = "json_string" THEN "String"
                     ELSE "Number"

----------------------------------------------------------------------------
(* The arena under every API that allocates from it: SpecArena.  The       *)
(* caller makes up to MaxOps calls on a small arena, in any order:         *)
(* json_arena_alloc, json_arena_save, json_arena_restore to a mark that    *)
(* json_arena_save returned, the builders, and json_parse of its text.     *)
(* op keeps the caller's books besides the call's own fields:              *)
(*   n        the calls made so far                                        *)
(*   live     the blocks [at, size] the arena handed out that no           *)
(*            json_arena_restore to a position at or below them discarded  *)
(*   marks    the positions json_arena_save returned                       *)
(*   valid    the marks no json_arena_restore to a lower position passed   *)
(*   nested   whether every json_arena_restore so far was to a valid mark  *)
(*   held     the objects and arrays among the live blocks                 *)
(*   ret      the payload addresses the last call returned                 *)
(*   written  the cells the last call stored to                            *)

\* The texts the caller parses: an array of a string, which fits the empty
\* arena exactly, and a string with an escape that fits the arena or runs
\* into its end.
ArenaTexts ==
  { T(<<"[", "\"", "a", "\"", "]">>),
    T(<<"\"", "a", "b", "\\", "n", "a", "b", "a", "b", "a", "b", "\"">>) }

\* The caller's buffer starts at an unaligned address.
ArenaInputs == [memory : {8 * SIZEOF_PTR - 3}, t : ArenaTexts]

\* The cells of m2 that differ from m.
Stored(m, m2) == {a \in DOMAIN m2 : a \notin DOMAIN m \/ m2[a] # m[a]}

\* The blocks of a value: its payload and, for a container, its entries or
\* elements, their keys and the blocks of their values.
RECURSIVE Blocks(_, _)
RECURSIVE EntryBlocks(_, _)
RECURSIVE ElementBlocks(_, _)
Blocks(m, v) ==
  CASE json_is_number(v) -> {[at |-> json__pointer(v), size |-> SIZEOF_NUMBER]}
    [] json_is_string(v) ->
         {[at |-> json_string_get(v), size |-> Len(CStr(m, json_string_get(v))) + 1]}
    [] json_is_object(v) ->
         {[at |-> json__pointer(v), size |-> SIZEOF_OBJECT]}
           \cup EntryBlocks(m, json_object_iterator(m, v))
    [] json_is_array(v) ->
         {[at |-> json__pointer(v), size |-> SIZEOF_ARRAY]}
           \cup ElementBlocks(m, json_array_iterator(m, v))
    [] OTHER -> {}

EntryBlocks(m, i) ==
  IF i = 0 THEN {}
  ELSE {[at |-> i, size |-> SIZEOF_ENTRY],
        [at |-> Rd(m, i + OFF_KEY), size |-> Len(CStr(m, Rd(m, i + OFF_KEY))) + 1]}
         \cup Blocks(m, Rd(m, i + OFF_ENTRY_VALUE))
         \cup EntryBlocks(m, Rd(m, i + OFF_NEXT))

ElementBlocks(m, i) ==
  IF i = 0 THEN {}
  ELSE {[at |-> i, size |-> SIZEOF_ELEMENT]}
         \cup Blocks(m, Rd(m, i + OFF_ELEMENT_VALUE))
         \cup ElementBlocks(m, Rd(m, i + OFF_NEXT))

InitArena ==
  /\ input \in ArenaInputs
  /\ pc = "ready"
  /\ arena = json_arena_init(input.memory, TightArenaLen).arena
  /\ mem = Place(Literals, TextBase, input.t)
  /\ op = [name |-> "json_arena_init", n |-> 0, live |-> {}, marks |-> {},
           valid |-> {}, nested |-> TRUE, held |-> {}, ret |-> {}, written |-> {}]

\* The caller's books after a call that restores nothing: the call's name,
\* the blocks and the containers it added, what it returned and the memory
\* it left.
Booked(name, blocks, values, ret, m2) ==
  [name |-> name, n |-> op.n + 1, live |-> op.live \cup blocks,
   marks |-> op.marks, valid |-> op.valid, nested |-> op.nested,
   held |-> op.held \cup values, ret |-> ret, written |-> Stored(mem, m2)]

ArenaCall ==
  /\ pc = "ready"
  /\ op.n < MaxOps
  /\ UNCHANGED <<pc, input>>

Alloc(size) ==
  /\ ArenaCall
  /\ LET al == json_arena_alloc(arena, size) IN
       /\ arena' = al.arena
       /\ mem' = mem
       /\ op' = IF al.r = 0 THEN Booked("json_arena_alloc", {}, {}, {}, mem)
                ELSE Booked("json_arena_alloc", {[at |-> al.r, size |-> size]},
                            {}, {al.r}, mem)

Save ==
  /\ ArenaCall
  /\ json_arena_save(arena) \notin op.marks
  /\ op' = [Booked("json_arena_save", {}, {}, {}, mem)
              EXCEPT !.marks = @ \cup {json_arena_save(arena)},
                     !.valid = @ \cup {json_arena_save(arena)}]
  /\ UNCHANGED <<arena, mem>>

Restore(position) ==
  /\ ArenaCall
  /\ position # arena.heap
  /\ arena' = json_arena_restore(arena, position)
  /\ mem' = mem
  /\ op' = [name |-> "json_arena_restore", n |-> op.n + 1,
            live |-> {b \in op.live : b.at < arena.buffer + position},
            marks |-> op.marks,
            valid |-> {k \in op.valid : k <= position},
            nested |-> op.nested /\ position \in op.valid,
            held |-> {v \in op.held : json__pointer(v) < arena.buffer + position},
            ret |-> {}, written |-> {}]

NumberNew(number) ==
  /\ ArenaCall
  /\ LET r == json_number_new(arena, mem, number) IN
       /\ arena' = r.arena
       /\ mem' = r.mem
       /\ op' = IF r.v = JSON_UNDEFINED THEN Booked("json_number_new", {}, {}, {}, r.mem)
                ELSE Booked("json_number_new", Blocks(r.mem, r.v), {},
                            {json__pointer(r.v)}, r.mem)

ObjectNewIn ==
  /\ ArenaCall
  /\ LET r == json_object_new(arena, mem) IN
       /\ arena' = r.arena
       /\ mem' = r.mem
       /\ op' = IF r.v = JSON_UNDEFINED THEN Booked("json_object_new", {}, {}, {}, r.mem)
                ELSE Booked("json_object_new", {[at |-> json__pointer(r.v), size |-> SIZEOF_OBJECT]},
                            {r.v}, {json__pointer(r.v)}, r.mem)

ArrayNewIn ==
  /\ ArenaCall
  /\ LET r == json_array_new(arena, mem) IN
       /\ arena' = r.arena
       /\ mem' = r.mem
       /\ op' = IF r.v = JSON_UNDEFINED THEN Booked("json_array_new", {}, {}, {}, r.mem)
                ELSE Booked("json_array_new", {[at |-> json__pointer(r.v), size |-> SIZEOF_ARRAY]},
                            {r.v}, {json__pointer(r.v)}, r.mem)

\* The entry or element a builder call added at the old arena offset, if it
\* added one.
Added(ret, size) ==
  IF ret = 0 THEN {[at |-> arena.buffer + arena.heap, size |-> size]} ELSE {}

AppendIn(object, key, value) ==
  /\ ArenaCall
  /\ LET r == json_object_append(arena, mem, object, key, value) IN
       /\ arena' = r.arena
       /\ mem' = r.mem
       /\ op' = Booked("json_object_append", Added(r.ret, SIZEOF_ENTRY), {}, {}, r.mem)

\* On an object that a json_arena_restore to a passed mark cut into, the
\* scan of json_object_set need not end; a call that never returns is no
\* step.
SetIn(object, key, value) ==
  /\ ArenaCall
  /\ op.nested
  /\ LET r == json_object_set(arena, mem, object, key, value) IN
       /\ arena' = r.arena
       /\ mem' = r.mem
       /\ op' = Booked("json_object_set",
                       IF r.arena.heap # arena.heap THEN Added(r.ret, SIZEOF_ENTRY) ELSE {},
                       {}, {}, r.mem)

PushIn(array, value) ==
  /\ ArenaCall
  /\ LET r == json_array_push(arena, mem, array, value) IN
       /\ arena' = r.arena
       /\ mem' = r.mem
       /\ op' = Booked("json_array_push", Added(r.ret, SIZEOF_ELEMENT), {}, {}, r.mem)

\* json_parse(json, arena, &v) of the caller's text, v = JSON_UNDEFINED.
ParseIn ==
  /\ ArenaCall
  /\ LET r == json_parse(TextBase, arena, mem, JSON_UNDEFINED) IN
       /\ arena' = r.arena
       /\ mem' = r.mem
       /\ op' = [p |-> r.p, result |-> r.result, heap0 |-> arena.heap] @@
                IF r.p = 0 THEN Booked("json_parse", {}, {}, {}, r.mem)
                ELSE Booked("json_parse", Blocks(r.mem, r.result),
                            IF json_is_object(r.result) \/ json_is_array(r.result)
                            THEN {r.result} ELSE {},
                            {b.at : b \in Blocks(r.mem, r.result)}, r.mem)

NextArena ==
  \/ Alloc(1)
  \/ Save
  \/ \E position \in op.marks : Restore(position)
  \/ NumberNew(5)
  \/ ObjectNewIn
  \/ ArrayNewIn
  \/ \E object \in {v \in op.held : json_is_object(v)} : AppendIn(object, KeyA, JSON_TRUE)
  \/ \E object \in {v \in op.held : json_is_object(v)} : SetIn(object, KeyA, JSON_FALSE)
  \/ \E array \in {v \in op.held : json_is_array(v)} : PushIn(array, JSON_NULL)
  \/ ParseIn

SpecArena == InitArena /\ [][NextArena]_vars

----------------------------------------------------------------------------
(* Claims about the arena, under SpecArena.                                *)

\* Whether two blocks share a byte.
Overlap(b, c) == b.at < c.at + c.size /\ c.at < b.at + b.size

\* The offset is in 0..size and a multiple of the alignment, every returned
\* payload address is aligned, live blocks do not overlap, and every cell
\* stored to lies in [buffer, buffer + size).
ArenaSound ==
  /\ 0 <= arena.heap /\ arena.heap <= arena.size
  /\ arena.heap % JSON__ALIGNMENT = 0
  /\ \A r \in op.ret : r % JSON__ALIGNMENT = 0 /\ r % 4 = 0
  /\ \A b \in op.live : \A c \in op.live : b # c => ~Overlap(b, c)
  /\ \A a \in op.written : arena.buffer <= a /\ a < arena.buffer + arena.size

----------------------------------------------------------------------------
(* A claim about the parser's result, under SpecParse.                     *)

\* C12: whenever json_parse returns a position other than 0, the value it
\* wrote to *result is not Undefined; if the arena cannot hold the
\* container header, the number or the string of the text, the empty
\* containers {} and [] among them, json_parse returns 0.
C12_SuccessHasValue ==
  (pc = "parsed" /\ op.p # 0) => op.result # JSON_UNDEFINED

====
